---- MODULE Spec2Model ----
(***************************************************************************)
(* agent-rate-limiter: the token-bucket shaper (core/limiter.py), the key  *)
(* pool (key_manager.py), the retrying request engine (limiter.py) and the *)
(* priority queue (queue.py), as state machines.                           *)
(*                                                                         *)
(* Time is discrete.  In the core limiter one tick is the time in which    *)
(* the request bucket refills 1/Unit of a permit, and bucket levels are    *)
(* fixed-point numbers counted in 1/Unit of a token, so that the           *)
(* fractional refill of TokenBucket._refill is kept.                       *)
(***************************************************************************)
EXTENDS Integers, Sequences, FiniteSets, TLC

VARIABLES
    now,              \* the reading of time.time()
    bucket,           \* one free-standing TokenBucket
    request_bucket,   \* core RateLimiter.request_bucket
    token_bucket,     \* core RateLimiter.token_bucket
    metrics,          \* core RateLimiter: total_requests, total_tokens, failed_requests
    th,               \* per caller thread: position in the limit() wrapper and its locals
    admitted,         \* history: number of wrapped calls started at each clock reading
    ncalls,           \* history: number of calls of the wrapper so far
    strategy,         \* KeyManager._strategy
    keys,             \* KeyManager._keys: index -> KeyState
    current_index,    \* KeyManager._current_index
    last_key,         \* history: what the most recent get_key() returned
    req,              \* RateLimiter.request: position and locals of the call in progress
    engine,           \* RateLimiter: max_retries and the three statistics counters
    queue,            \* PriorityQueue._queue
    request_counter,  \* PriorityQueue._request_counter
    fut,              \* request id -> state of the item's asyncio.Future
    put_pc,           \* request id -> position of the put() call that created the item
    nres,             \* history: request id -> number of times its future was resolved
    last_get,         \* history: what the most recent get() returned
    held,             \* the request ids of the items consumers hold: those get() returned
    max_size,         \* PriorityQueue._max_size
    last_put,         \* history: how the most recent put() call began
    signalled,        \* history: the ids complete() or fail() was called for while pending
    last_clear,       \* history: what clear() returned, while it is the most recent queue step
    waiter,           \* a wait_for_item() call: its position and what it returned
    budgets,          \* CostTracker.daily_budget / weekly_budget / monthly_budget
    entries,          \* CostTracker.entries
    alerted,          \* CostTracker._alerted
    alert_log,        \* history: the on_alert invocations since the last reset_alerts
    last_record,      \* history: the cost and the outcome of the most recent record()
    wrapped,          \* history: calls of a MultiProviderLimiter.limit wrapper
    calc              \* a call of RateLimiter._calculate_delay: its arguments and its result

coreVars == <<bucket, request_bucket, token_bucket, metrics, th, admitted, ncalls>>

kmVars == <<strategy, keys, current_index, last_key>>

rqVars == <<req, engine>>

pqVars ==
    <<queue, request_counter, fut, put_pc, nres, last_get, held, max_size, last_put, signalled,
      last_clear, waiter>>

ctVars == <<budgets, entries, alerted, alert_log, last_record, wrapped>>

fnVars == <<calc>>

vars == <<now, coreVars, kmVars, rqVars, pqVars, ctVars, fnVars>>

----------------------------------------------------------------------------
(* Bounds of the model *)

MaxClock == 2
MaxCalls == 4
Unit == 2
MaxCapacity == 3
MaxTime == 3
MaxRequestsMade == 2
MaxPuts == 2
MaxEntries == 3
MantissaBits == 5

(* Configuration of the modelled limiter: ModelConfig.rpm / ModelConfig.tpm *)
RPM == 1
TPM == 2

\* Python's Optional: None is the empty tuple, a value v is <<v>>
None == <<>>
Some(v) == <<v>>
Val(o) == o[1]

Min(a, b) == IF a <= b THEN a ELSE b
Max(a, b) == IF a >= b THEN a ELSE b
CeilDiv(a, b) == (a + b - 1) \div b

Clock == 0..MaxClock
\* the concurrent callers of one limiter
Threads == {"t1", "t2"}

\* ticks per minute: one tick refills 1/Unit of a request permit (rpm / 60 per second)
TicksPerMin == RPM * Unit

\* estimated_tokens of the decorated functions: within and above the bucket's capacity
EstTokens == {1, TPM + 1}

----------------------------------------------------------------------------
(* TokenBucket *)

\* TokenBucket.__post_init__: a full bucket stamped with the current time.
\* perMinute / 60 tokens per second is perMinute * Unit / TicksPerMin units per tick.
NewBucket(capacity, perMinute, t) ==
    [capacity |-> capacity * Unit,
     tokens |-> capacity * Unit,
     last_update |-> t,
     refill_rate |-> (perMinute * Unit) \div TicksPerMin]

\* TokenBucket._refill at clock reading t
Refill(b, t) ==
    [b EXCEPT !.tokens = Min(b.capacity, b.tokens + (t - b.last_update) * b.refill_rate),
              !.last_update = t]

\* the value TokenBucket.consume returns
ConsumeOk(b, t, n) == Refill(b, t).tokens >= n * Unit

\* a consume that takes what is left when the bucket holds too little
Consume_Partial(b, t, n) ==
    LET r == Refill(b, t)
    IN  [r EXCEPT !.tokens = Max(0, @ - n * Unit)]

\* the bucket after TokenBucket.consume(n)
Consume(b, t, n) ==
    LET r == Refill(b, t)
    IN  IF r.tokens >= n * Unit THEN [r EXCEPT !.tokens = @ - n * Unit] ELSE r

\* the value TokenBucket.wait_time(n) returns, in ticks (a sleep lasts whole ticks)
WaitTime(b, t, n) ==
    LET r == Refill(b, t)
    IN  IF r.tokens >= n * Unit THEN 0 ELSE CeilDiv(n * Unit - r.tokens, r.refill_rate)

----------------------------------------------------------------------------
(* core RateLimiter *)

IdleThread ==
    [pc |-> "idle", est |-> 0, wake |-> 0, hits |-> 0,
     invoked |-> FALSE, got_request |-> FALSE, got_tokens |-> FALSE]

InitCore ==
    /\ request_bucket = NewBucket(RPM, RPM, 0)
    /\ token_bucket = NewBucket(TPM, TPM, 0)
    /\ metrics = [total_requests |-> 0, total_tokens |-> 0, failed_requests |-> 0]
    /\ th = [t \in Threads |-> IdleThread]
    /\ admitted = [c \in Clock |-> 0]
    /\ ncalls = 0

\* a caller enters the wrapper of limit(estimated_tokens)
CallStart(t, e) ==
    /\ th[t].pc = "idle"
    /\ ncalls < MaxCalls
    /\ ncalls' = ncalls + 1
    /\ th' = [th EXCEPT ![t] = [IdleThread EXCEPT !.pc = "wait_request", !.est = e]]
    /\ UNCHANGED <<now, bucket, request_bucket, token_bucket, metrics, admitted, kmVars, rqVars,
                   pqVars, ctVars, fnVars>>

\* _wait_for_capacity, first half: request_bucket.wait_time(1), on_limit_hit, sleep
WaitForRequestCapacity(t) ==
    /\ th[t].pc = "wait_request"
    /\ LET request_wait == WaitTime(request_bucket, now, 1)
       IN  /\ request_bucket' = Refill(request_bucket, now)
           /\ th' = [th EXCEPT ![t] =
                        IF request_wait > 0
                        THEN [@ EXCEPT !.pc = "sleep_request", !.hits = @ + 1,
                                       !.wake = now + request_wait]
                        ELSE [@ EXCEPT !.pc = "wait_tokens"]]
    /\ UNCHANGED <<now, bucket, token_bucket, metrics, admitted, ncalls, kmVars, rqVars,
                   pqVars, ctVars, fnVars>>

\* time.sleep(request_wait) returns
RequestSleepDone(t) ==
    /\ th[t].pc = "sleep_request"
    /\ now >= th[t].wake
    /\ th' = [th EXCEPT ![t].pc = "wait_tokens", ![t].wake = 0]
    /\ UNCHANGED <<now, bucket, request_bucket, token_bucket, metrics, admitted, ncalls, kmVars, rqVars,
                   pqVars, ctVars, fnVars>>

\* _wait_for_capacity, second half: token_bucket.wait_time(estimated_tokens)
WaitForTokenCapacity(t) ==
    /\ th[t].pc = "wait_tokens"
    /\ LET token_wait == WaitTime(token_bucket, now, th[t].est)
       IN  /\ token_bucket' = Refill(token_bucket, now)
           /\ th' = [th EXCEPT ![t] =
                        IF token_wait > 0
                        THEN [@ EXCEPT !.pc = "sleep_tokens", !.hits = @ + 1,
                                       !.wake = now + token_wait]
                        ELSE [@ EXCEPT !.pc = "call"]]
    /\ UNCHANGED <<now, bucket, request_bucket, metrics, admitted, ncalls, kmVars, rqVars,
                   pqVars, ctVars, fnVars>>

\* time.sleep(token_wait) returns
TokenSleepDone(t) ==
    /\ th[t].pc = "sleep_tokens"
    /\ now >= th[t].wake
    /\ th' = [th EXCEPT ![t].pc = "call", ![t].wake = 0]
    /\ UNCHANGED <<now, bucket, request_bucket, token_bucket, metrics, admitted, ncalls, kmVars, rqVars,
                   pqVars, ctVars, fnVars>>

\* result = func(*args, **kwargs) returns; total_requests += 1
InvokeFunc(t) ==
    /\ th[t].pc = "call"
    /\ admitted' = [admitted EXCEPT ![now] = @ + 1]
    /\ metrics' = [metrics EXCEPT !.total_requests = @ + 1]
    /\ th' = [th EXCEPT ![t].pc = "consume_request", ![t].invoked = TRUE]
    /\ UNCHANGED <<now, bucket, request_bucket, token_bucket, ncalls, kmVars, rqVars,
                   pqVars, ctVars, fnVars>>

\* a wrapper that counts a failed call as a request and takes its request permit
InvokeFuncRaises_Counted(t) ==
    /\ th[t].pc = "call"
    /\ admitted' = [admitted EXCEPT ![now] = @ + 1]
    /\ metrics' = [metrics EXCEPT !.failed_requests = @ + 1, !.total_requests = @ + 1]
    /\ request_bucket' = Consume(request_bucket, now, 1)
    /\ th' = [th EXCEPT ![t] = IdleThread]
    /\ UNCHANGED <<now, bucket, token_bucket, ncalls, kmVars, rqVars,
                   pqVars, ctVars, fnVars>>

\* func(*args, **kwargs) raises; failed_requests += 1; raise
InvokeFuncRaises(t) ==
    /\ th[t].pc = "call"
    /\ admitted' = [admitted EXCEPT ![now] = @ + 1]
    /\ metrics' = [metrics EXCEPT !.failed_requests = @ + 1]
    /\ th' = [th EXCEPT ![t] = IdleThread]
    /\ UNCHANGED <<now, bucket, request_bucket, token_bucket, ncalls, kmVars, rqVars,
                   pqVars, ctVars, fnVars>>

\* self.request_bucket.consume(1), its result dropped
ConsumeRequest(t) ==
    /\ th[t].pc = "consume_request"
    /\ request_bucket' = Consume(request_bucket, now, 1)
    /\ th' = [th EXCEPT ![t].pc = "consume_tokens",
                        ![t].got_request = ConsumeOk(request_bucket, now, 1)]
    /\ UNCHANGED <<now, bucket, token_bucket, metrics, admitted, ncalls, kmVars, rqVars,
                   pqVars, ctVars, fnVars>>

\* self.token_bucket.consume(estimated_tokens); total_tokens += estimated_tokens; return
ConsumeTokens(t) ==
    /\ th[t].pc = "consume_tokens"
    /\ token_bucket' = Consume(token_bucket, now, th[t].est)
    /\ metrics' = [metrics EXCEPT !.total_tokens = @ + th[t].est]
    /\ th' = [th EXCEPT ![t] = IdleThread]
    /\ UNCHANGED <<now, bucket, request_bucket, admitted, ncalls, kmVars, rqVars, pqVars, ctVars, fnVars>>

\* the clock advances
Tick ==
    /\ now < MaxClock
    /\ now' = now + 1
    /\ UNCHANGED <<coreVars, kmVars, rqVars, pqVars, ctVars, fnVars>>

NextCore ==
    \/ \E t \in Threads, e \in EstTokens : CallStart(t, e)
    \/ \E t \in Threads : WaitForRequestCapacity(t)
    \/ \E t \in Threads : RequestSleepDone(t)
    \/ \E t \in Threads : WaitForTokenCapacity(t)
    \/ \E t \in Threads : TokenSleepDone(t)
    \/ \E t \in Threads : InvokeFunc(t)
    \/ \E t \in Threads : InvokeFuncRaises(t)
    \/ \E t \in Threads : ConsumeRequest(t)
    \/ \E t \in Threads : ConsumeTokens(t)
    \/ Tick

\* ModelConfig(rpm=2, tpm=100) and the estimated_tokens of the calls made on it: 10, and
\* the whole token bucket
ShapingRpm == 2
ShapingTpm == 100
ShapingEst == {10, ShapingTpm}

\* RateLimiter.__init__ with ModelConfig(rpm=2, tpm=100)
InitShaper ==
    /\ request_bucket = NewBucket(ShapingRpm, ShapingRpm, 0)
    /\ token_bucket = NewBucket(ShapingTpm, ShapingTpm, 0)
    /\ metrics = [total_requests |-> 0, total_tokens |-> 0, failed_requests |-> 0]
    /\ th = [t \in Threads |-> IdleThread]
    /\ admitted = [c \in Clock |-> 0]
    /\ ncalls = 0

\* time passes while the caller is inside time.sleep
SleepTick(t) ==
    /\ th[t].pc \in {"sleep_request", "sleep_tokens"}
    /\ now < th[t].wake
    /\ now < MaxClock
    /\ now' = now + 1
    /\ UNCHANGED <<coreVars, kmVars, rqVars, pqVars, ctVars, fnVars>>

\* one caller making its calls back to back: no time passes but in its sleeps
NextShaping ==
    \/ \E e \in ShapingEst : CallStart("t1", e)
    \/ WaitForRequestCapacity("t1")
    \/ RequestSleepDone("t1")
    \/ WaitForTokenCapacity("t1")
    \/ TokenSleepDone("t1")
    \/ InvokeFunc("t1")
    \/ InvokeFuncRaises("t1")
    \/ ConsumeRequest("t1")
    \/ ConsumeTokens("t1")
    \/ SleepTick("t1")

\* time.sleep(wait) of caller t elapses: the clock reaches the end of the sleep
SleepElapses(t) ==
    /\ th[t].pc \in {"sleep_request", "sleep_tokens"}
    /\ now < th[t].wake
    /\ now' = th[t].wake
    /\ UNCHANGED <<coreVars, kmVars, rqVars, pqVars, ctVars, fnVars>>

\* the steps of the wrapper of caller t after it was entered; the wrapped function
\* returns or raises
WrapperStep(t) ==
    \/ WaitForRequestCapacity(t)
    \/ RequestSleepDone(t)
    \/ WaitForTokenCapacity(t)
    \/ TokenSleepDone(t)
    \/ InvokeFunc(t)
    \/ InvokeFuncRaises(t)
    \/ ConsumeRequest(t)
    \/ ConsumeTokens(t)
    \/ SleepElapses(t)

\* two concurrent callers, one whose estimated_tokens is above the capacity of the
\* token bucket and one within it; time passes in their sleeps
NextOversize ==
    \/ CallStart("t1", TPM + 1)
    \/ CallStart("t2", 1)
    \/ \E t \in Threads : WrapperStep(t)

----------------------------------------------------------------------------
(* one TokenBucket used directly, at whatever time.time() returns *)

InitFreeBucket == bucket = NewBucket(1, RPM, 0)

\* bucket.consume(n) under bucket.lock
BucketConsume(n) ==
    /\ bucket' = Consume(bucket, now, n)
    /\ UNCHANGED <<now, request_bucket, token_bucket, metrics, th, admitted, ncalls, kmVars, rqVars,
                   pqVars, ctVars, fnVars>>

\* bucket.wait_time(n) under bucket.lock
BucketWaitTime(n) ==
    /\ bucket' = Refill(bucket, now)
    /\ UNCHANGED <<now, request_bucket, token_bucket, metrics, th, admitted, ncalls, kmVars, rqVars,
                   pqVars, ctVars, fnVars>>

\* time.time() is the wall clock: its next reading is any value, also an earlier one
\* (the system clock was set back)
ClockRead(t) ==
    /\ now' = t
    /\ UNCHANGED <<coreVars, kmVars, rqVars, pqVars, ctVars, fnVars>>

NextBucket ==
    \/ \E n \in 1..MaxCapacity : BucketConsume(n)
    \/ \E n \in 1..MaxCapacity : BucketWaitTime(n)
    \/ \E t \in Clock : ClockRead(t)


----------------------------------------------------------------------------
(* KeyManager.  A key is named by its index in the list given to the         *)
(* constructor (the key strings are distinct).  KeyState.last_used,           *)
(* last_rate_limit and tokens_used are written and never read; they are left  *)
(* out.                                                                       *)

\* the api_keys handed to the constructor: the largest pool modelled
ApiKeys == <<"k1", "k2">>

\* KeyManager(cooldown_seconds=...), in ticks
CooldownSeconds == 2

Strategies == {"ROUND_ROBIN", "LEAST_USED", "RANDOM", "FAILOVER"}

\* RateLimitInfo: the fields the pool and the engine read
Info(remaining, retry_after, reset_time) ==
    [requests_remaining |-> remaining, retry_after |-> retry_after, reset_time |-> reset_time]

\* the snapshots handed to report_success; None is "no snapshot"
SuccessSnapshots ==
    {None, Some(Info(Some(1), None, None)), Some(Info(Some(0), None, None))}

\* the snapshots handed to report_rate_limit: none, Retry-After: 2, Retry-After: -1,
\* a reset time
LimitSnapshots ==
    {None, Some(Info(None, Some(2), None)), Some(Info(None, Some(-1), None)),
     Some(Info(None, None, Some(MaxTime)))}

\* Python truthiness of an Optional number / Optional object
Truthy(o) == o # None /\ Val(o) # 0

Pool == DOMAIN keys

\* KeyState(key=k)
NewKeyState ==
    [requests_made |-> 0, cooldown_until |-> None, rate_limit_info |-> None]

\* KeyState.is_on_cooldown at clock reading t
IsOnCooldown(ks, t) == ks.cooldown_until # None /\ t < Val(ks.cooldown_until)

\* get_key without the cooldown filter
AvailableAt_NoFilter(ks, t) == DOMAIN ks

\* get_key: available = [k for k in self._keys if not k.is_on_cooldown]
AvailableAt(ks, t) == {i \in DOMAIN ks : ~IsOnCooldown(ks[i], t)}

\* a rotation that always starts its scan at the first key
RoundRobinIndex_FromFirst(ks, cur, t) ==
    CHOOSE i \in AvailableAt(ks, t) : \A j \in AvailableAt(ks, t) : i <= j

\* KeyManager._get_round_robin: the first available key at or after the cursor
RoundRobinIndex(ks, cur, t) ==
    LET n == Cardinality(DOMAIN ks)
        off == CHOOSE i \in 0..(n - 1) :
                  /\ ((cur + i) % n) \in AvailableAt(ks, t)
                  /\ \A j \in 0..(i - 1) : ((cur + j) % n) \notin AvailableAt(ks, t)
    IN  (cur + off) % n

\* KeyManager._get_least_used: max() and min() return the first extremal element
LeastUsedIndex(ks, t) ==
    LET available == AvailableAt(ks, t)
        with_info == {i \in available :
                         /\ ks[i].rate_limit_info # None
                         /\ Val(ks[i].rate_limit_info).requests_remaining # None}
        rem(i) == Val(Val(ks[i].rate_limit_info).requests_remaining)
    IN  IF with_info # {}
        THEN CHOOSE i \in with_info :
                \A j \in with_info : rem(j) < rem(i) \/ (rem(j) = rem(i) /\ i <= j)
        ELSE CHOOSE i \in available :
                \A j \in available :
                    \/ ks[j].requests_made > ks[i].requests_made
                    \/ (ks[j].requests_made = ks[i].requests_made /\ i <= j)

\* KeyManager._get_failover: the first available key in declaration order
FailoverIndex(ks, t) ==
    CHOOSE i \in AvailableAt(ks, t) : \A j \in AvailableAt(ks, t) : i <= j

\* the keys get_key may select at clock reading t (random.choice has several outcomes)
SelectableAt(ks, cur, t) ==
    IF AvailableAt(ks, t) = {} THEN {}
    ELSE IF strategy = "ROUND_ROBIN" THEN {RoundRobinIndex(ks, cur, t)}
    ELSE IF strategy = "LEAST_USED" THEN {LeastUsedIndex(ks, t)}
    ELSE IF strategy = "RANDOM" THEN AvailableAt(ks, t)
    ELSE {FailoverIndex(ks, t)}

Selectable == SelectableAt(keys, current_index, now)

\* the cursor after get_key selected index i
CursorAfter(i) ==
    IF strategy = "ROUND_ROBIN" THEN (i + 1) % Cardinality(Pool) ELSE current_index

\* the key states after get_key selected index i: requests_made += 1
KeysAfterGet(ks, i) == [ks EXCEPT ![i].requests_made = @ + 1]

\* report_rate_limit: the cooldown length chosen from the snapshot
CooldownFor(info, t) ==
    IF info # None /\ Truthy(Val(info).retry_after) THEN Val(Val(info).retry_after)
    ELSE IF info # None /\ Truthy(Val(info).reset_time)
         THEN Max(Val(Val(info).reset_time) - t, CooldownSeconds)
    ELSE CooldownSeconds

\* the key states after report_rate_limit(k, info) at clock reading t
KeysAfterRateLimit(ks, k, info, t) ==
    [ks EXCEPT ![k] = [@ EXCEPT !.rate_limit_info = info,
                                  !.cooldown_until = Some(t + CooldownFor(info, t))]]

\* the key states after report_success(k, info)
KeysAfterSuccess(ks, k, info) == [ks EXCEPT ![k].rate_limit_info = info]

InitKeys(n, s) ==
    /\ strategy = s
    /\ keys = [i \in 0..(n - 1) |-> NewKeyState]
    /\ current_index = 0
    /\ last_key = None

\* KeyManager.get_key() returning a key
GetKey ==
    /\ \E i \in Selectable :
          /\ keys[i].requests_made < MaxRequestsMade
          /\ keys' = KeysAfterGet(keys, i)
          /\ current_index' = CursorAfter(i)
          /\ last_key' = Some(i)
    /\ UNCHANGED <<rqVars, pqVars, now, coreVars, strategy, ctVars, fnVars>>

\* KeyManager.get_key() returning None
GetKeyNone ==
    /\ Selectable = {}
    /\ last_key' = None
    /\ UNCHANGED <<rqVars, pqVars, now, coreVars, strategy, keys, current_index, ctVars, fnVars>>

\* KeyManager.report_success(key, rate_limit_info)
ReportSuccess(k, info) ==
    /\ keys' = KeysAfterSuccess(keys, k, info)
    /\ UNCHANGED <<rqVars, pqVars, now, coreVars, strategy, current_index, last_key, ctVars, fnVars>>

\* KeyManager.report_rate_limit(key, rate_limit_info)
ReportRateLimit(k, info) ==
    /\ keys' = KeysAfterRateLimit(keys, k, info, now)
    /\ UNCHANGED <<rqVars, pqVars, now, coreVars, strategy, current_index, last_key, ctVars, fnVars>>

\* KeyManager.reset_key(key)
ResetKey(k) ==
    /\ keys' = [keys EXCEPT ![k].cooldown_until = None]
    /\ UNCHANGED <<rqVars, pqVars, now, coreVars, strategy, current_index, last_key, ctVars, fnVars>>

\* KeyManager.reset_all()
ResetAll ==
    /\ keys' = [i \in Pool |-> [keys[i] EXCEPT !.cooldown_until = None,
                                               !.requests_made = 0]]
    /\ UNCHANGED <<rqVars, pqVars, now, coreVars, strategy, current_index, last_key, ctVars, fnVars>>

\* time passes between two calls
TimePasses ==
    /\ now < MaxTime
    /\ now' = now + 1
    /\ UNCHANGED <<coreVars, kmVars, rqVars, pqVars, ctVars, fnVars>>

NextKeys ==
    \/ GetKey
    \/ GetKeyNone
    \/ \E k \in Pool, info \in SuccessSnapshots : ReportSuccess(k, info)
    \/ \E k \in Pool, info \in LimitSnapshots : ReportRateLimit(k, info)
    \/ \E k \in Pool : ResetKey(k)
    \/ ResetAll
    \/ TimePasses

----------------------------------------------------------------------------
(* RateLimiter.request (limiter.py): the retrying request engine.  The call   *)
(* runs on the asyncio loop, so it is atomic between its two awaits: the      *)
(* transport call and asyncio.sleep.  Time passes while the call sleeps; the  *)
(* transport answers within the tick.  total_wait and      *)
(* last_rate_limit_info are only copied into the outcome and are left out.    *)

\* RateLimiter(base_delay=..., max_delay=...), in ticks
BaseDelay == 2
MaxDelay == 4

\* RateLimiter(max_retries=...): the configurations modelled
MaxRetriesChoices == 0..2

\* the factor 0.5 + random.random() of the jitter, in halves; 2 is also "jitter off"
JitterHalves == {1, 2, 3}

\* the snapshots a provider parses from a remote-limit response received at t:
\* no headers, Retry-After: 2, a reset time one tick ahead
LimitInfos(t) ==
    {Info(None, None, None), Info(None, Some(2), None), Info(None, None, Some(t + 1))}

\* the snapshots parsed from a non-limit response
OkInfos == {Info(None, None, None), Info(Some(1), None, None)}

\* RateLimiter.__init__
NewEngine(max_retries) ==
    [max_retries |-> max_retries, total_requests |-> 0, total_retries |-> 0,
     total_rate_limits |-> 0]

\* a header is <<name, value>>; the value the caller supplied is CallerValue, and
\* the value f"Bearer {key}" is the index of the key
CallerValue == -1

\* the headers= argument of request(): without an authorization header (empty, or one
\* other header), or with one in one of three letter cases
CallerHeaders ==
    {{}, {<<"Authorization", CallerValue>>}, {<<"authorization", CallerValue>>},
     {<<"AUTHORIZATION", CallerValue>>}, {<<"X-Trace", CallerValue>>}}

\* the header names that are an authorization header to the transport (HTTP header
\* names are case-insensitive)
IsAuthorization(name) == name \in {"Authorization", "authorization", "AUTHORIZATION"}

\* the locals of request() at its start; kwargs_headers is kwargs["headers"] (None once
\* it was popped), error the error text of the outcome.  caller, sent, calls, limits
\* and timeouts are history: the headers the caller passed, the headers the transport
\* received in the latest attempt, the transport calls made and the remote-limit and
\* timeout results received; log lists the transport calls that have ended, events
\* the calls the engine made while it handled the latest remote-limit response,
\* status the status code of the latest response (0: none yet)
IdleRequest ==
    [pc |-> "idle", retries |-> 0, keys_tried |-> {}, key |-> None, wake |-> 0,
     calls |-> 0, limits |-> 0, timeouts |-> 0, outcome |-> "none",
     kwargs_headers |-> None, caller |-> {}, sent |-> {}, error |-> "none",
     log |-> <<>>, events |-> <<>>, status |-> 0]

\* one transport call of the request as the log (history) keeps it: the key it was made
\* with, how it ended, and the Retry-After of a remote-limit response
Attempt(r, result, retry_after) ==
    [key |-> Val(r.key), result |-> result, retry_after |-> retry_after]

\* request(method, url, headers=h)
NewRequest(h) == [IdleRequest EXCEPT !.kwargs_headers = Some(h), !.caller = h]

\* headers = kwargs.pop("headers", {})
PoppedHeaders(r) == IF r.kwargs_headers = None THEN {} ELSE Val(r.kwargs_headers)

\* `if "Authorization" not in headers and "authorization" not in headers:
\*      headers["Authorization"] = f"Bearer {key}"`
AttachAuth(headers, i) ==
    IF \E h \in headers : h[1] \in {"Authorization", "authorization"}
    THEN headers
    ELSE headers \cup {<<"Authorization", i>>}

RECURSIVE Pow2(_)
Pow2(n) == IF n = 0 THEN 1 ELSE 2 * Pow2(n - 1)

\* RateLimiter._calculate_delay read at clock t, f the jitter factor in halves
\* (rate_limit_info is None or a snapshot)
CalculateDelay(retry_count, rate_limit_info, t, f) ==
    LET delay == IF rate_limit_info # None /\ Truthy(Val(rate_limit_info).retry_after)
                 THEN Val(Val(rate_limit_info).retry_after)
                 ELSE IF rate_limit_info # None /\ Val(rate_limit_info).reset_time # None
                 THEN Max(0, Val(Val(rate_limit_info).reset_time) - t)
                 ELSE BaseDelay * Pow2(retry_count)
    IN  (Min(delay, MaxDelay) * f) \div 2

\* no _calculate_delay call is under test
NoCalc == [pc |-> "none"]

\* the arguments of _calculate_delay under test: the retry counts, the snapshots (none;
\* Retry-After absent, 0, 2 or above max_delay; reset time absent, past, one tick ahead
\* or beyond max_delay) and the clock readings
CalcRetries == 0..2
CalcSnapshots(t) ==
    {None} \cup {Some(Info(None, ra, rt)) :
                    ra \in {None, Some(0), Some(2), Some(MaxDelay + 1)},
                    rt \in {None, Some(0), Some(t + 1), Some(t + MaxDelay + 1)}}
CalcClock == 1..2

\* limiter._calculate_delay(retry_count, rate_limit_info) returns
CalculateDelayCall ==
    /\ calc.pc = "called"
    /\ calc' = [calc EXCEPT !.pc = "returned",
                            !.delay = CalculateDelay(calc.retry_count, calc.rate_limit_info,
                                                     calc.t, calc.f)]
    /\ UNCHANGED <<now, coreVars, kmVars, rqVars, pqVars, ctVars>>

NextDelay == CalculateDelayCall

\* a retry loop that never sees its budget spent
BudgetSpent_Never(r) == FALSE

\* the negation of `while retries <= self._max_retries`, also `if retries > self._max_retries`
BudgetSpent(r) == r.retries > engine.max_retries

\* request() returns a RequestResult or raises
Finish(r, outcome) == [r EXCEPT !.pc = "done", !.outcome = outcome]

\* the head of the while loop with locals r, pool ks and clock t, up to the transport call
EnterLoop(r, ks, t) ==
    IF BudgetSpent(r)
    THEN /\ req' = Finish(r, "RateLimitError")
         /\ keys' = ks
         /\ UNCHANGED <<current_index, last_key>>
    ELSE IF SelectableAt(ks, current_index, t) = {}
    THEN /\ req' = Finish(r, "RateLimitError")
         /\ keys' = ks
         /\ last_key' = None
         /\ UNCHANGED current_index
    ELSE \E i \in SelectableAt(ks, current_index, t) :
            /\ keys' = KeysAfterGet(ks, i)
            /\ current_index' = CursorAfter(i)
            /\ last_key' = Some(i)
            /\ req' = [r EXCEPT !.pc = "transport", !.key = Some(i),
                                !.keys_tried = @ \cup {i}, !.calls = @ + 1,
                                !.kwargs_headers = None,
                                !.sent = AttachAuth(PoppedHeaders(r), i)]

\* request(method, url, headers=h) is called
RequestStart(h) ==
    /\ req.pc = "idle"
    /\ engine' = [engine EXCEPT !.total_requests = @ + 1]
    /\ EnterLoop(NewRequest(h), keys, now)
    /\ UNCHANGED <<now, coreVars, pqVars, strategy, ctVars, fnVars>>

\* a call the engine makes (history): its name, its arguments and whether the key of
\* the attempt is on cooldown when it is made
Event(ev, args, cooling) == [ev |-> ev, args |-> args, cooling |-> cooling]

\* lines 191-206 for key k, with the pool ks as report_rate_limit left it: on_rate_limit
\* and on_retry are called when they are configured
LimitEvents(r, ks, k, delay, t) ==
    LET cooling == IsOnCooldown(ks[k], t)
    IN  << Event("report_rate_limit", <<k>>, cooling),
           Event("on_rate_limit", <<k>>, cooling),
           Event("on_retry", <<r.retries + 1, delay>>, cooling),
           Event("sleep", <<delay>>, cooling) >>

\* the transport answers with a response that is_rate_limit_error classifies as a
\* remote limit; asyncio.sleep of a negative delay returns at once
TransportLimit(status_code, info, f) ==
    /\ req.pc = "transport"
    /\ engine' = [engine EXCEPT !.total_rate_limits = @ + 1]
    /\ keys' = KeysAfterRateLimit(keys, Val(req.key), Some(info), now)
    /\ req' = [req EXCEPT !.pc = "sleeping", !.limits = @ + 1, !.status = status_code,
                          !.wake = now + Max(0, CalculateDelay(req.retries, Some(info), now, f)),
                          !.log = Append(@, Attempt(req, "limit", info.retry_after)),
                          !.events = LimitEvents(req, KeysAfterRateLimit(keys, Val(req.key), Some(info), now),
                                                 Val(req.key),
                                                 CalculateDelay(req.retries, Some(info), now, f), now)]
    /\ UNCHANGED <<now, coreVars, pqVars, strategy, current_index, last_key, ctVars, fnVars>>

\* asyncio.sleep(delay) returns
SleepDone ==
    /\ req.pc = "sleeping"
    /\ now' = Max(now, req.wake)
    /\ engine' = [engine EXCEPT !.total_retries = @ + 1]
    /\ EnterLoop([req EXCEPT !.retries = @ + 1], keys, Max(now, req.wake))
    /\ UNCHANGED <<coreVars, pqVars, strategy, ctVars, fnVars>>

\* the transport answers with a response that is_rate_limit_error does not classify as
\* a remote limit: report_success and the RequestResult with success=True
TransportOk(status_code, info) ==
    /\ req.pc = "transport"
    /\ keys' = KeysAfterSuccess(keys, Val(req.key), Some(info))
    /\ req' = Finish([req EXCEPT !.log = Append(@, Attempt(req, "ok", None)),
                                 !.status = status_code], "success")
    /\ UNCHANGED <<now, coreVars, pqVars, engine, strategy, current_index, last_key, ctVars, fnVars>>

\* a timeout handler that falls out of the loop into the final raise when the budget
\* is spent
TransportTimeout_Raises ==
    /\ req.pc = "transport"
    /\ LET r == [req EXCEPT !.retries = @ + 1, !.timeouts = @ + 1]
       IN  EnterLoop(r, keys, now)
    /\ UNCHANGED <<now, coreVars, pqVars, engine, strategy, ctVars, fnVars>>

\* the transport raises httpx.TimeoutException: `retries += 1`, the unsuccessful
\* RequestResult with the timeout error when retries > max_retries, else `continue`
TransportTimeout ==
    /\ req.pc = "transport"
    /\ LET r == [req EXCEPT !.retries = @ + 1, !.timeouts = @ + 1,
                            !.log = Append(@, Attempt(req, "timeout", None))]
       IN  IF BudgetSpent(r)
           THEN /\ req' = Finish([r EXCEPT !.error = "timeout"], "failure")
                /\ UNCHANGED <<keys, current_index, last_key>>
           ELSE EnterLoop(r, keys, now)
    /\ UNCHANGED <<now, coreVars, pqVars, engine, strategy, ctVars, fnVars>>

\* a handler that treats every transport error as a remote limit: the key goes on
\* cooldown and the request sleeps and retries
TransportError_Retries ==
    /\ req.pc = "transport"
    /\ keys' = KeysAfterRateLimit(keys, Val(req.key), Some(Info(None, None, None)), now)
    /\ req' = [req EXCEPT !.pc = "sleeping",
                          !.wake = now + Max(0, CalculateDelay(req.retries, Some(Info(None, None, None)), now, 2))]
    /\ UNCHANGED <<now, coreVars, pqVars, current_index, last_key, engine, strategy, ctVars, fnVars>>

\* the transport raises another httpx.RequestError: the unsuccessful RequestResult is
\* returned at once
TransportError ==
    /\ req.pc = "transport"
    /\ req' = Finish([req EXCEPT !.error = "request_error",
                                 !.log = Append(@, Attempt(req, "error", None))], "failure")
    /\ UNCHANGED <<now, coreVars, pqVars, kmVars, engine, ctVars, fnVars>>

\* the status codes and the decoded bodies of the responses of an OpenAI endpoint: no
\* JSON object, or an object whose error is the given message
Statuses == {200, 401, 429, 500, 503}
Bodies == {None, Some("Rate limit exceeded"), Some("Server error")}

\* `"rate" in str(error).lower()` for the messages modelled
MentionsRate(message) == message = "Rate limit exceeded"

\* OpenAIProvider.is_rate_limit_error(status_code, response_body)
IsRateLimitError(status_code, response_body) ==
    \/ status_code = 429
    \/ /\ status_code = 503
       /\ response_body # None
       /\ MentionsRate(Val(response_body))

\* the snapshots parsed from the headers of a response received at t
ResponseInfos(t) == LimitInfos(t) \cup OkInfos

\* an engine that takes every error status for a remote limit
TransportReturns_ErrorsRetry(status_code, response_body, info, f) ==
    IF status_code >= 400
    THEN TransportLimit(status_code, info, f)
    ELSE TransportOk(status_code, info)

\* the transport call returns a response with the given status, body and parsed
\* headers to an engine with the OpenAI dialect:
\* `if self._provider.is_rate_limit_error(response.status_code, None):` leads to the
\* remote-limit path, anything else to the success path
TransportReturns(status_code, response_body, info, f) ==
    IF IsRateLimitError(status_code, None)
    THEN TransportLimit(status_code, info, f)
    ELSE TransportOk(status_code, info)

\* the snapshots parsed from a remote-limit response received at t, also one whose
\* header is `Retry-After: -1` (get_retry_after returns float("-1"))
CallbackInfos(t) == LimitInfos(t) \cup {Info(None, Some(-1), None)}

\* one request() call of an engine with on_rate_limit and on_retry configured, against
\* an endpoint that answers every call
NextCallbacks ==
    \/ RequestStart({})
    \/ \E info \in CallbackInfos(now), f \in JitterHalves : TransportLimit(429, info, f)
    \/ \E info \in OkInfos : TransportOk(200, info)
    \/ SleepDone

\* one request() call against an OpenAI endpoint that answers every call
NextDialect ==
    \/ RequestStart({})
    \/ \E status_code \in Statuses, response_body \in Bodies :
          \E info \in ResponseInfos(now), f \in JitterHalves :
             TransportReturns(status_code, response_body, info, f)
    \/ SleepDone

\* the transport call returns or raises
TransportStep ==
    \/ \E info \in LimitInfos(now), f \in JitterHalves : TransportLimit(429, info, f)
    \/ \E info \in OkInfos : TransportOk(200, info)
    \/ TransportTimeout
    \/ TransportError

\* a read of the property RateLimiter.current_key: `return self._key_manager.get_key()`
CurrentKey == GetKey \/ GetKeyNone

\* the number of transport calls the request() call has issued with key k: the calls
\* that have ended and the one in flight
IssuedWith(r, k) ==
    Cardinality({i \in 1..Len(r.log) : r.log[i].key = k})
        + (IF r.pc = "transport" /\ r.key = Some(k) THEN 1 ELSE 0)

\* one request() call, and reads of current_key at any moment of it
NextUsage ==
    \/ RequestStart({})
    \/ TransportStep
    \/ SleepDone
    \/ CurrentKey

\* another request() call running on the same limiter makes one pass through the loop
\* whose transport call answers with a remote limit: get_key, the transport call and
\* report_rate_limit, after which that call sleeps
OtherRequestLimited(info) ==
    /\ req.pc = "idle"
    /\ \E i \in Selectable :
          /\ keys[i].requests_made < MaxRequestsMade
          /\ keys' = KeysAfterRateLimit(KeysAfterGet(keys, i), i, Some(info), now)
          /\ current_index' = CursorAfter(i)
          /\ last_key' = Some(i)
    /\ engine' = [engine EXCEPT !.total_rate_limits = @ + 1]
    /\ UNCHANGED <<now, coreVars, pqVars, strategy, req, ctVars, fnVars>>

\* a limiter whose transport answers every call with a remote limit: calls of other
\* requests first, then one request() call without headers
NextExhausted ==
    \/ \E info \in LimitInfos(now) : OtherRequestLimited(info)
    \/ RequestStart({})
    \/ \E info \in LimitInfos(now), f \in JitterHalves : TransportLimit(429, info, f)
    \/ SleepDone

NextRequest ==
    \/ \E h \in CallerHeaders : RequestStart(h)
    \/ \E info \in LimitInfos(now), f \in JitterHalves : TransportLimit(429, info, f)
    \/ \E info \in OkInfos : TransportOk(200, info)
    \/ TransportTimeout
    \/ TransportError
    \/ SleepDone

----------------------------------------------------------------------------
(* PriorityQueue (queue.py).  The queue runs on the asyncio loop and its lock *)
(* is never held across an await, so put (up to its wait), get, _remove_item, *)
(* complete, fail and clear are atomic.  A request id is the value of         *)
(* _request_counter that named it.  The wait of put() ends when the future is *)
(* resolved or when the timer of asyncio.wait_for fires; timers may have any  *)
(* length, so a timer may fire at any moment.  When the future is resolved    *)
(* otherwise, put() returns or raises without touching the queue: that step   *)
(* changes no state and has no action.                                        *)

\* Priority: CRITICAL = 0 .. BULK = 4
Priorities == 0..4

\* PriorityQueue(max_size=...): the largest capacity modelled
MaxSize == 2

\* QueueItem: the compared fields and the request id
Item(p, ts, id) == [priority |-> p, timestamp |-> ts, id |-> id]

\* QueueItem.__lt__ (dataclass(order=True)): (priority, timestamp) tuples
ItemLess(a, b) ==
    \/ a.priority < b.priority
    \/ (a.priority = b.priority /\ a.timestamp < b.timestamp)

RECURSIVE Bisect(_, _, _, _)
\* the binary search of _insert_sorted; lo and hi are Python's 0-based indices
Bisect(q, item, lo, hi) ==
    IF lo < hi
    THEN LET mid == (lo + hi) \div 2
         IN  IF ItemLess(q[mid + 1], item)
             THEN Bisect(q, item, mid + 1, hi)
             ELSE Bisect(q, item, lo, mid)
    ELSE lo

\* an insertion that ignores the order
InsertSorted_Append(q, item) == Append(q, item)

\* PriorityQueue._insert_sorted
InsertSorted(q, item) ==
    LET lo == Bisect(q, item, 0, Len(q))
    IN  SubSeq(q, 1, lo) \o <<item>> \o SubSeq(q, lo + 1, Len(q))

\* a removal that removes nothing
RemoveItem_Nothing(q, id) == q

\* the loop of _remove_item: request ids are unique
RemoveItem(q, id) ==
    LET Keep(x) == x.id # id IN SelectSeq(q, Keep)

InQueue(id) == \E i \in 1..Len(queue) : queue[i].id = id

\* a future that never reports being done
Done_Never(f) == FALSE

\* asyncio.Future.done()
Done(f) == f # "pending"

\* a queue that never reports being full
IsFull_Never(q) == FALSE

\* PriorityQueue.is_full
IsFull(q) == Len(q) >= max_size

\* put(method, url): priority is left at its default, Priority.NORMAL
DefaultPriority == 2

\* no wait_for_item() call in progress
IdleWaiter == [pc |-> "idle", result |-> None, timed_out |-> FALSE, notified |-> FALSE]

\* self._not_empty.notify(): the waiter of the condition, if there is one, is woken
Notify(w) ==
    IF w.pc = "waiting" THEN [w EXCEPT !.pc = "woken", !.notified = TRUE] ELSE w

\* put(priority=p), d ticks after the previous step, up to `await wait_for(future)`:
\* the item is inserted and the condition is notified
Put(p, d) ==
    /\ ~IsFull(queue)
    /\ request_counter < MaxPuts
    /\ now' = now + d
    /\ request_counter' = request_counter + 1
    /\ queue' = InsertSorted(queue, Item(p, now + d, request_counter + 1))
    /\ fut' = Append(fut, "pending")
    /\ put_pc' = Append(put_pc, "waiting")
    /\ nres' = Append(nres, 0)
    /\ last_put' = "admitted"
    /\ last_clear' = None
    /\ waiter' = Notify(waiter)
    /\ UNCHANGED <<coreVars, kmVars, rqVars, last_get, held, max_size, signalled,
                   ctVars, fnVars>>

\* put() on a full queue: raise QueueFullError
PutFull ==
    /\ IsFull(queue)
    /\ last_put' = "QueueFullError"
    /\ last_clear' = None
    /\ waiter' = waiter
    /\ UNCHANGED <<now, coreVars, kmVars, rqVars, queue, request_counter, fut, put_pc, nres,
                   last_get, held, max_size, signalled, ctVars, fnVars>>

\* get() on a non-empty queue
Get ==
    /\ queue # <<>>
    /\ last_get' = Some(Head(queue))
    /\ queue' = Tail(queue)
    /\ held' = held \cup {Head(queue).id}
    /\ last_clear' = None
    /\ waiter' = waiter
    /\ UNCHANGED <<now, coreVars, kmVars, rqVars, request_counter, fut, put_pc, nres,
                   max_size, last_put, signalled, ctVars, fnVars>>

\* get() on an empty queue
GetEmpty ==
    /\ queue = <<>>
    /\ last_get' = None
    /\ last_clear' = None
    /\ waiter' = waiter
    /\ UNCHANGED <<now, coreVars, kmVars, rqVars, queue, request_counter, fut, put_pc, nres, held, max_size, last_put,
                   signalled, ctVars, fnVars>>

\* the future of id is resolved as `how` unless it is done: complete, fail and clear
\* test done() first, and set_result on a done future raises InvalidStateError
Resolve(id, how) ==
    IF Done(fut[id])
    THEN UNCHANGED <<fut, nres>>
    ELSE /\ fut' = [fut EXCEPT ![id] = how]
         /\ nres' = [nres EXCEPT ![id] = @ + 1]

\* a consumer resolves an item it got: item.future.set_result(result)
SetResult(id) ==
    /\ id \in held
    /\ Resolve(id, "result")
    /\ last_clear' = None
    /\ waiter' = waiter
    /\ UNCHANGED <<now, coreVars, kmVars, rqVars, queue, request_counter, put_pc, last_get, held, max_size, last_put,
                   signalled, ctVars, fnVars>>

\* complete(request_id, result)
Complete(id) ==
    /\ IF InQueue(id) THEN Resolve(id, "result") ELSE UNCHANGED <<fut, nres>>
    /\ signalled' = IF fut[id] = "pending" THEN signalled \cup {id} ELSE signalled
    /\ last_clear' = None
    /\ waiter' = waiter
    /\ UNCHANGED <<now, coreVars, kmVars, rqVars, queue, request_counter, put_pc, last_get,
                   held, max_size, last_put, ctVars, fnVars>>

\* fail(request_id, error)
Fail(id) ==
    /\ IF InQueue(id) THEN Resolve(id, "error") ELSE UNCHANGED <<fut, nres>>
    /\ signalled' = IF fut[id] = "pending" THEN signalled \cup {id} ELSE signalled
    /\ last_clear' = None
    /\ waiter' = waiter
    /\ UNCHANGED <<now, coreVars, kmVars, rqVars, queue, request_counter, put_pc, last_get,
                   held, max_size, last_put, ctVars, fnVars>>

\* clear(): every queued future that is not done is cancelled, the queue is emptied and
\* the number of items it held is returned
Clear ==
    /\ fut' = [id \in DOMAIN fut |->
                  IF InQueue(id) /\ ~Done(fut[id]) THEN "cancelled" ELSE fut[id]]
    /\ nres' = [id \in DOMAIN nres |->
                  IF InQueue(id) /\ ~Done(fut[id]) THEN nres[id] + 1 ELSE nres[id]]
    /\ queue' = <<>>
    /\ last_clear' = Some(Len(queue))
    /\ waiter' = waiter
    /\ UNCHANGED <<now, coreVars, kmVars, rqVars, request_counter, put_pc, last_get, held,
                   max_size, last_put, signalled, ctVars, fnVars>>

\* the timer of asyncio.wait_for fires while put() waits: the future is cancelled
TimeoutFires(id) ==
    /\ id \in DOMAIN put_pc
    /\ put_pc[id] = "waiting"
    /\ fut[id] = "pending"
    /\ fut' = [fut EXCEPT ![id] = "timeout"]
    /\ nres' = [nres EXCEPT ![id] = @ + 1]
    /\ put_pc' = [put_pc EXCEPT ![id] = "expired"]
    /\ last_clear' = None
    /\ waiter' = waiter
    /\ UNCHANGED <<now, coreVars, kmVars, rqVars, queue, request_counter, last_get, held, max_size, last_put,
                   signalled, ctVars, fnVars>>

\* put() resumes with asyncio.TimeoutError: _remove_item, raise QueueTimeoutError
PutTimedOut(id) ==
    /\ id \in DOMAIN put_pc
    /\ put_pc[id] = "expired"
    /\ queue' = RemoveItem(queue, id)
    /\ put_pc' = [put_pc EXCEPT ![id] = "raised_timeout"]
    /\ last_clear' = None
    /\ waiter' = waiter
    /\ UNCHANGED <<now, coreVars, kmVars, rqVars, request_counter, fut, nres, last_get, held, max_size, last_put,
                   signalled, ctVars, fnVars>>

\* wait_for_item(timeout): on a non-empty queue it returns get() at once (no lock is
\* contended, so nothing runs in between); on an empty queue it waits on the condition
WaitForItem ==
    /\ waiter.pc \in {"idle", "returned"}
    /\ IF queue = <<>>
       THEN /\ waiter' = [IdleWaiter EXCEPT !.pc = "waiting"]
            /\ UNCHANGED <<queue, last_get, held>>
       ELSE /\ waiter' = [IdleWaiter EXCEPT !.pc = "returned", !.result = Some(Head(queue))]
            /\ queue' = Tail(queue)
            /\ last_get' = Some(Head(queue))
            /\ held' = held \cup {Head(queue).id}
    /\ last_clear' = None
    /\ UNCHANGED <<now, coreVars, kmVars, rqVars, request_counter, fut, put_pc, nres,
                   max_size, last_put, signalled, ctVars, fnVars>>

\* the timer of asyncio.wait_for fires while wait_for_item waits: return None
WaitTimedOut ==
    /\ waiter.pc = "waiting"
    /\ waiter' = [waiter EXCEPT !.pc = "returned", !.timed_out = TRUE]
    /\ last_clear' = None
    /\ UNCHANGED <<now, coreVars, kmVars, rqVars, queue, request_counter, fut, put_pc, nres,
                   last_get, held, max_size, last_put, signalled, ctVars, fnVars>>

\* the woken waiter resumes, some time after the notify: `return await self.get()`
WaitResume ==
    /\ waiter.pc = "woken"
    /\ IF queue = <<>>
       THEN /\ waiter' = [waiter EXCEPT !.pc = "returned", !.result = None]
            /\ last_get' = None
            /\ UNCHANGED <<queue, held>>
       ELSE /\ waiter' = [waiter EXCEPT !.pc = "returned", !.result = Some(Head(queue))]
            /\ queue' = Tail(queue)
            /\ last_get' = Some(Head(queue))
            /\ held' = held \cup {Head(queue).id}
    /\ last_clear' = None
    /\ UNCHANGED <<now, coreVars, kmVars, rqVars, request_counter, fut, put_pc, nres,
                   max_size, last_put, signalled, ctVars, fnVars>>

\* producers that put at the default priority, consumers that call get and one that
\* calls wait_for_item
NextWaiter ==
    \/ \E d \in 0..1 : Put(DefaultPriority, d)
    \/ PutFull
    \/ Get
    \/ GetEmpty
    \/ WaitForItem
    \/ WaitTimedOut
    \/ WaitResume
    \/ \E id \in 1..request_counter : TimeoutFires(id)
    \/ \E id \in 1..request_counter : PutTimedOut(id)

\* the calls on the queue other than put
NextQueueCalls ==
    \/ PutFull
    \/ Get
    \/ GetEmpty
    \/ \E id \in 1..request_counter : SetResult(id)
    \/ \E id \in 1..request_counter : Complete(id)
    \/ \E id \in 1..request_counter : Fail(id)
    \/ Clear
    \/ \E id \in 1..request_counter : TimeoutFires(id)
    \/ \E id \in 1..request_counter : PutTimedOut(id)

\* the priorities the callers of put() pass: CRITICAL, NORMAL and BULK
PutPriorities == {0, 2, 4}

NextQueue ==
    \/ \E p \in PutPriorities, d \in 0..1 : Put(p, d)
    \/ PutFull
    \/ Get
    \/ GetEmpty
    \/ \E id \in 1..request_counter : SetResult(id)
    \/ \E id \in 1..request_counter : Complete(id)
    \/ \E id \in 1..request_counter : Fail(id)
    \/ Clear
    \/ \E id \in 1..request_counter : TimeoutFires(id)
    \/ \E id \in 1..request_counter : PutTimedOut(id)

\* the queue when every put leaves the priority at its default
NextQueueDefault ==
    \/ \E d \in 0..1 : Put(DefaultPriority, d)
    \/ NextQueueCalls

----------------------------------------------------------------------------
(* CostTracker (core/cost_tracker.py) and the wrapper of                      *)
(* MultiProviderLimiter.limit (core/multi_limiter.py).  Money is counted in   *)
(* whole units, so that sums are exact.  The three windows keep their order   *)
(* but not their lengths: a day is one tick, a week two, a month three.  The  *)
(* ledger's lock makes record and reset_alerts atomic.  Of an entry the cost  *)
(* and the timestamp are kept.                                                *)

Windows == {"daily", "weekly", "monthly"}

\* _check_budgets: now - 86400, now - 604800, now - 2592000, in ticks
WindowLength(w) == IF w = "daily" THEN 1 ELSE IF w = "weekly" THEN 2 ELSE 3

\* CostTracker(alert_threshold=0.8) as the fraction AlertNum / AlertDen
AlertNum == 4
AlertDen == 5

\* the caps a tracker is configured with: none, or a cap in money units
BudgetChoices(w) ==
    IF w = "daily" THEN {None, Some(5)} ELSE {None, Some(10)}

\* the token counts handed to record, and ModelConfig.cost_per_1k_input / _output
InputTokens == {0, 2000}
OutputTokens == {0, 2000}
CostPer1kInput == 1
CostPer1kOutput == 2

\* record: (input_tokens / 1000) * cost_per_1k_input + (output_tokens / 1000) * cost_per_1k_output
Cost(input_tokens, output_tokens) ==
    (input_tokens * CostPer1kInput + output_tokens * CostPer1kOutput) \div 1000

\* costs are Python floats: a sum is rounded to the nearest value the mantissa holds,
\* ties to the even mantissa.  The mantissa modelled has MantissaBits bits (Python's has
\* 53), so sums below 2^MantissaBits are exact.
MantissaLimit == Pow2(MantissaBits)

RECURSIVE Ulp(_)
\* the distance between the floats around x
Ulp(x) == IF x < MantissaLimit THEN 1 ELSE 2 * Ulp(x \div 2)

\* the float a + b
FloatAdd(a, b) ==
    IF a + b < MantissaLimit THEN a + b
    ELSE LET x == a + b
             step == Ulp(x)
             q == x \div step
             r == x % step
         IN  IF 2 * r < step THEN q * step
             ELSE IF 2 * r > step THEN (q + 1) * step
             ELSE IF q % 2 = 0 THEN q * step ELSE (q + 1) * step

RECURSIVE FloatSum(_, _)
\* sum(...) of a sequence of floats, starting from acc: added left to right
FloatSum(acc, xs) == IF xs = <<>> THEN acc ELSE FloatSum(FloatAdd(acc, Head(xs)), Tail(xs))

RECURSIVE CostSinceFrom(_, _, _)
\* sum(entry.cost for entry in es if entry.timestamp >= since), starting from acc
CostSinceFrom(acc, es, since) ==
    IF es = <<>> THEN acc
    ELSE CostSinceFrom(IF Head(es).timestamp >= since THEN FloatAdd(acc, Head(es).cost)
                       ELSE acc,
                       Tail(es), since)

\* CostTracker._get_cost_since
CostSince(es, since) == CostSinceFrom(0, es, since)

\* f"{entry.provider}/{entry.model}" of the models recorded
ModelKeys == {"openai/gpt-4", "anthropic/claude-opus-4"}

\* the model a MultiProviderLimiter.limit wrapper records for
WrappedModel == "openai/gpt-4"

RECURSIVE KeyOrder(_)
\* the keys of the dict get_costs builds, in insertion order: the order of their first
\* entries
KeyOrder(es) ==
    IF es = <<>> THEN <<>>
    ELSE LET before == KeyOrder(SubSeq(es, 1, Len(es) - 1))
             k == es[Len(es)].key
         IN  IF \E i \in 1..Len(before) : before[i] = k THEN before ELSE Append(before, k)

\* CostTracker.get_costs(): costs[key] = costs.get(key, 0.0) + entry.cost over the entries
GetCosts(es) ==
    [k \in {es[i].key : i \in 1..Len(es)} |->
        LET Mine(e) == e.key = k
        IN  FloatSum(0, [i \in 1..Len(SelectSeq(es, Mine)) |-> SelectSeq(es, Mine)[i].cost])]

\* sum(get_costs().values()): the values in the dict's order
SumOfCosts(es) ==
    FloatSum(0, [i \in 1..Len(KeyOrder(es)) |-> GetCosts(es)[KeyOrder(es)[i]]])

\* a check that compares only the newest entry with the cap
WindowSum_Latest(es, w, t) == IF es = <<>> THEN 0 ELSE es[Len(es)].cost

\* the sum _check_budgets compares with the cap of window w at clock reading t
WindowSum(es, w, t) == CostSince(es, t - WindowLength(w))

\* a test that takes every cap that is not None for a cap
Enabled_NotNone(w) == budgets[w] # None

\* `if self.daily_budget:` a cap that is None or 0 switches the window off
Enabled(w) == Truthy(budgets[w])

\* a threshold test that never fires
AlertDue_Never(sum, cap) == FALSE

\* `cost >= budget * self.alert_threshold`
AlertDue(sum, cap) == AlertDen * sum >= AlertNum * cap

\* one of the three blocks of _check_budgets; st carries the exception raised so far,
\* the alert flags and the on_alert invocations
CheckWindow(w, es, t, st) ==
    IF st.raised # "none" \/ ~Enabled(w) THEN st
    ELSE LET sum == WindowSum(es, w, t)
             cap == Val(budgets[w])
         IN  IF sum >= cap THEN [st EXCEPT !.raised = w]
             ELSE IF AlertDue(sum, cap) /\ ~st.alerted[w]
             THEN [st EXCEPT !.alerted[w] = TRUE,
                             !.log = Append(@, [window |-> w, current |-> sum, cap |-> cap])]
             ELSE st

\* CostTracker._check_budgets on the ledger es at clock reading t
CheckBudgets(es, t) ==
    CheckWindow("monthly", es, t,
        CheckWindow("weekly", es, t,
            CheckWindow("daily", es, t,
                [raised |-> "none", alerted |-> alerted, log |-> alert_log])))

\* a record that checks the budgets before it appends
Recorded_CheckFirst(input_tokens, output_tokens) ==
    LET st == CheckBudgets(entries, now)
    IN  /\ entries' = Append(entries, [key |-> WrappedModel,
                                       cost |-> Cost(input_tokens, output_tokens),
                                       timestamp |-> now])
        /\ alerted' = st.alerted
        /\ alert_log' = st.log
        /\ last_record' = [cost |-> Cost(input_tokens, output_tokens), raised |-> st.raised]

\* the body of CostTracker.record for the model with key k: append the entry, then
\* check the budgets
RecordedFor(k, input_tokens, output_tokens) ==
    LET es == Append(entries, [key |-> k, cost |-> Cost(input_tokens, output_tokens),
                               timestamp |-> now])
        st == CheckBudgets(es, now)
    IN  /\ entries' = es
        /\ alerted' = st.alerted
        /\ alert_log' = st.log
        /\ last_record' = [cost |-> Cost(input_tokens, output_tokens), raised |-> st.raised]

\* the body of CostTracker.record for the wrapped model
Recorded(input_tokens, output_tokens) == RecordedFor(WrappedModel, input_tokens, output_tokens)

\* CostTracker.record(provider, model, input_tokens, output_tokens, ...)
Record(input_tokens, output_tokens) ==
    /\ Len(entries) < MaxEntries
    /\ Recorded(input_tokens, output_tokens)
    /\ UNCHANGED <<now, coreVars, kmVars, rqVars, fnVars, pqVars, budgets, wrapped>>

\* the input token counts of the calls whose costs are broken down by model: a cost of
\* one unit, and a cost of the first magnitude at which the mantissa drops a unit
BreakdownTokens == {1000, 1000 * Pow2(MantissaBits)}

\* CostTracker.record(provider, model, input_tokens, 0, ...) for any of the models
RecordModel(k, input_tokens) ==
    /\ Len(entries) < MaxEntries
    /\ RecordedFor(k, input_tokens, 0)
    /\ UNCHANGED <<now, coreVars, kmVars, rqVars, fnVars, pqVars, budgets, wrapped>>

NextBreakdown == \E k \in ModelKeys, i \in BreakdownTokens : RecordModel(k, i)

\* CostTracker.reset_alerts()
ResetAlerts ==
    /\ alerted' = [w \in Windows |-> FALSE]
    /\ alert_log' = <<>>
    /\ UNCHANGED <<now, coreVars, kmVars, rqVars, fnVars, pqVars, budgets, entries, last_record, wrapped>>

\* a call of a function wrapped by MultiProviderLimiter.limit with token counts: the
\* rate-limited function runs, which takes its permits, then its cost is recorded
WrapperCall(input_tokens, output_tokens) ==
    /\ Len(entries) < MaxEntries
    /\ wrapped' = [wrapped EXCEPT !.calls = @ + 1, !.invoked = @ + 1]
    /\ Recorded(input_tokens, output_tokens)
    /\ UNCHANGED <<now, coreVars, kmVars, rqVars, fnVars, pqVars, budgets>>

\* CostTracker.__init__ with the caps b
NewLedger(b) ==
    /\ budgets = b
    /\ entries = <<>>
    /\ alerted = [w \in Windows |-> FALSE]
    /\ alert_log = <<>>
    /\ last_record = [cost |-> 0, raised |-> "none"]
    /\ wrapped = [calls |-> 0, invoked |-> 0]

\* record calls and the passing of time
NextZeroCap ==
    \/ \E i \in InputTokens, o \in OutputTokens : Record(i, o)
    \/ TimePasses

NextCost ==
    \/ \E i \in InputTokens, o \in OutputTokens : Record(i, o)
    \/ \E i \in InputTokens, o \in OutputTokens : WrapperCall(i, o)
    \/ ResetAlerts
    \/ TimePasses

----------------------------------------------------------------------------
(* Specifications *)

\* a request engine on which request() was never called
InitEngine == req = IdleRequest /\ engine = NewEngine(0) /\ calc = NoCalc

\* PriorityQueue.__init__
InitQueue ==
    /\ queue = <<>>
    /\ request_counter = 0
    /\ fut = <<>>
    /\ put_pc = <<>>
    /\ nres = <<>>
    /\ last_get = None
    /\ held = {}
    /\ max_size = MaxSize
    /\ last_put = "none"
    /\ signalled = {}
    /\ last_clear = None
    /\ waiter = IdleWaiter

\* PriorityQueue(max_size=m) for every capacity modelled
InitQueueAny ==
    /\ queue = <<>>
    /\ request_counter = 0
    /\ fut = <<>>
    /\ put_pc = <<>>
    /\ nres = <<>>
    /\ last_get = None
    /\ held = {}
    /\ max_size \in 1..MaxSize
    /\ last_put = "none"
    /\ signalled = {}
    /\ last_clear = None
    /\ waiter = IdleWaiter

\* a CostTracker without budgets
InitLedger == NewLedger([w \in Windows |-> None])

Init ==
    /\ now = 0
    /\ InitFreeBucket
    /\ InitCore
    /\ InitKeys(Len(ApiKeys), "ROUND_ROBIN")
    /\ InitEngine
    /\ InitQueue
    /\ InitLedger

\* concurrent callers of one core RateLimiter, the clock never going back
SpecCore == Init /\ [][NextCore]_vars

InitShaping ==
    /\ now = 0
    /\ InitFreeBucket
    /\ InitShaper
    /\ InitKeys(Len(ApiKeys), "ROUND_ROBIN")
    /\ InitEngine
    /\ InitQueue
    /\ InitLedger

\* the latest clock reading MaxCalls calls can reach: each call sleeps at most the
\* wait of an empty request bucket and then that of an empty token bucket
OversizeHorizon ==
    MaxCalls * (WaitTime([NewBucket(RPM, RPM, 0) EXCEPT !.tokens = 0], 0, 1)
                + WaitTime([NewBucket(TPM, TPM, 0) EXCEPT !.tokens = 0], 0, TPM + 1))

\* a fresh limiter; the history of admissions reaches to the horizon
InitOversize ==
    /\ now = 0
    /\ InitFreeBucket
    /\ request_bucket = NewBucket(RPM, RPM, 0)
    /\ token_bucket = NewBucket(TPM, TPM, 0)
    /\ metrics = [total_requests |-> 0, total_tokens |-> 0, failed_requests |-> 0]
    /\ th = [t \in Threads |-> IdleThread]
    /\ admitted = [c \in 0..OversizeHorizon |-> 0]
    /\ ncalls = 0
    /\ InitKeys(Len(ApiKeys), "ROUND_ROBIN")
    /\ InitEngine
    /\ InitQueue
    /\ InitLedger

\* calls through limit() whose wrapped functions finish: every caller inside the
\* wrapper keeps running, and time.sleep returns
SpecOversize ==
    /\ InitOversize
    /\ [][NextOversize]_vars
    /\ \A t \in Threads : WF_vars(WrapperStep(t))

\* back-to-back calls of one caller on a fresh limiter with rpm=2, tpm=100
SpecShaping == InitShaping /\ [][NextShaping]_vars

InitBucket ==
    /\ now = 0
    /\ \E c \in 1..MaxCapacity : bucket = NewBucket(c, RPM, 0)
    /\ InitCore
    /\ InitKeys(Len(ApiKeys), "ROUND_ROBIN")
    /\ InitEngine
    /\ InitQueue
    /\ InitLedger

\* one TokenBucket under consume / wait_time at arbitrary clock readings
SpecBucket == InitBucket /\ [][NextBucket]_vars

InitPool ==
    /\ now = 0
    /\ InitFreeBucket
    /\ InitCore
    /\ \E n \in 1..Len(ApiKeys), s \in Strategies : InitKeys(n, s)
    /\ InitEngine
    /\ InitQueue
    /\ InitLedger

\* one KeyManager of any pool size and strategy under any sequence of its calls
SpecKeys == InitPool /\ [][NextKeys]_vars

InitRequest ==
    /\ now = 0
    /\ InitFreeBucket
    /\ InitCore
    /\ \E n \in 1..Len(ApiKeys), s \in Strategies : InitKeys(n, s)
    /\ req = IdleRequest
    /\ calc = NoCalc
    /\ \E m \in MaxRetriesChoices : engine = NewEngine(m)
    /\ InitQueue
    /\ InitLedger

\* one request() call on a fresh RateLimiter of any pool size, strategy and
\* max_retries, against a transport that answers every call: httpx gives up with
\* TimeoutException at the latest, and asyncio.sleep returns
SpecRequest ==
    InitRequest /\ [][NextRequest]_vars /\ WF_vars(TransportStep) /\ WF_vars(SleepDone)

\* one request() call on a fresh RateLimiter(provider=OpenAIProvider()) of any pool size,
\* strategy and max_retries
SpecDialect == InitRequest /\ [][NextDialect]_vars

\* one request() call on a fresh RateLimiter with both callbacks, of any pool size,
\* strategy and max_retries
SpecCallbacks == InitRequest /\ [][NextCallbacks]_vars

\* one request() call on a fresh RateLimiter whose current_key is read as well
SpecUsage == InitRequest /\ [][NextUsage]_vars

InitExhausted ==
    /\ now = 0
    /\ InitFreeBucket
    /\ InitCore
    /\ \E s \in Strategies : InitKeys(Len(ApiKeys), s)
    /\ req = IdleRequest
    /\ calc = NoCalc
    /\ \E m \in MaxRetriesChoices : engine = NewEngine(m)
    /\ InitQueue
    /\ InitLedger

\* one request() call on a limiter with the pool {k1, k2}, any strategy and max_retries,
\* whose keys are in any cooldown state other calls have left them in, against a
\* transport that answers every call with a remote limit
SpecExhausted == InitExhausted /\ [][NextExhausted]_vars

InitDelay ==
    /\ now = 0
    /\ InitFreeBucket
    /\ InitCore
    /\ InitKeys(Len(ApiKeys), "ROUND_ROBIN")
    /\ req = IdleRequest
    /\ engine = NewEngine(0)
    /\ \E n \in CalcRetries, t \in CalcClock, f \in JitterHalves :
          \E info \in CalcSnapshots(t) :
             calc = [pc |-> "called", retry_count |-> n, rate_limit_info |-> info,
                     t |-> t, f |-> f, delay |-> 0]
    /\ InitQueue
    /\ InitLedger

\* one call of _calculate_delay for every retry count, snapshot, clock reading and
\* jitter factor
SpecDelay == InitDelay /\ [][NextDelay]_vars

\* one PriorityQueue under every interleaving of its calls; every put() waits with a
\* finite timeout (timeout or self._default_timeout), so its timer fires unless the
\* future is resolved first
InitPriorityQueue ==
    /\ now = 0
    /\ InitFreeBucket
    /\ InitCore
    /\ InitKeys(Len(ApiKeys), "ROUND_ROBIN")
    /\ InitEngine
    /\ InitQueueAny
    /\ InitLedger

SpecQueue ==
    /\ InitPriorityQueue
    /\ [][NextQueue]_vars
    /\ \A id \in 1..MaxPuts : WF_vars(TimeoutFires(id))

\* a queue with producers, consumers that poll and one consumer that waits
SpecWaiter == InitPriorityQueue /\ [][NextWaiter]_vars

\* the same queue when every put leaves the priority at its default
SpecQueueDefault ==
    /\ InitPriorityQueue
    /\ [][NextQueueDefault]_vars
    /\ \A id \in 1..MaxPuts : WF_vars(TimeoutFires(id))

InitCost ==
    /\ now = 0
    /\ InitFreeBucket
    /\ InitCore
    /\ InitKeys(Len(ApiKeys), "ROUND_ROBIN")
    /\ InitEngine
    /\ InitQueue
    /\ \E d \in BudgetChoices("daily"), w \in BudgetChoices("weekly"),
          m \in BudgetChoices("monthly") :
          NewLedger([x \in Windows |->
                        IF x = "daily" THEN d ELSE IF x = "weekly" THEN w ELSE m])

InitBreakdown ==
    /\ now = 0
    /\ InitFreeBucket
    /\ InitCore
    /\ InitKeys(Len(ApiKeys), "ROUND_ROBIN")
    /\ InitEngine
    /\ InitQueue
    /\ \E d \in BudgetChoices("daily") :
          NewLedger([x \in Windows |-> IF x = "daily" THEN d ELSE None])

\* CostTracker(...) with the cap of one window, z, configured as 0 and any of the
\* modelled caps for the other two
InitZeroCap ==
    /\ now = 0
    /\ InitFreeBucket
    /\ InitCore
    /\ InitKeys(Len(ApiKeys), "ROUND_ROBIN")
    /\ InitEngine
    /\ InitQueue
    /\ \E z \in Windows :
          \E d \in BudgetChoices("daily"), w \in BudgetChoices("weekly"),
             m \in BudgetChoices("monthly") :
             NewLedger([x \in Windows |->
                           IF x = z THEN Some(0)
                           ELSE IF x = "daily" THEN d ELSE IF x = "weekly" THEN w ELSE m])

\* one CostTracker with a cap of 0 under record and the passing of time
SpecZeroCap == InitZeroCap /\ [][NextZeroCap]_vars

\* one CostTracker, with or without a daily cap, under record calls for two models
SpecBreakdown == InitBreakdown /\ [][NextBreakdown]_vars

\* one CostTracker with any combination of caps under record, calls through a
\* MultiProviderLimiter.limit wrapper, reset_alerts and the passing of time
SpecCost == InitCost /\ [][NextCost]_vars

----------------------------------------------------------------------------
(* Claims *)

\* C1 (as claimed): the wrapped function of limit / limit_async is invoked only after
\* one request permit and estimated_tokens token permits were consumed successfully.
C1_InvokedAfterPermits ==
    \A t \in Threads : th[t].invoked => (th[t].got_request /\ th[t].got_tokens)

RECURSIVE AdmittedIn(_, _)
\* the number of wrapped calls started at the clock readings s..e
AdmittedIn(s, e) == IF s > e THEN 0 ELSE admitted[s] + AdmittedIn(s + 1, e)

\* C2 (as claimed): in any window of W >= 60 s (TicksPerMin ticks) the number of
\* wrapped calls admitted is at most capacity + rpm * (W / 60) + 1.
C2_ShaperRate ==
    \A s \in Clock, e \in Clock :
        e - s >= TicksPerMin =>
            TicksPerMin * AdmittedIn(s, e) <= TicksPerMin * (RPM + 1) + RPM * (e - s)

\* C3 (as claimed): 0 <= tokens <= capacity after any sequence of consume and
\* wait_time calls at any clock readings.
C3_BucketBound == 0 <= bucket.tokens /\ bucket.tokens <= bucket.capacity

\* C6: for each of the four strategies, get_key never returns a key that is on cooldown
\* at the time of the call, and it returns None exactly when every key is on cooldown.
C6_GetKeyAvailable ==
    [][/\ GetKey => (last_key' # None /\ ~IsOnCooldown(keys[Val(last_key')], now))
       /\ GetKey => (\E i \in Pool : ~IsOnCooldown(keys[i], now))
       /\ GetKeyNone => (\A i \in Pool : IsOnCooldown(keys[i], now))]_vars

\* C6 witness: under FAILOVER get_key has returned the second key, the first one
\* being on cooldown.
C6_Witness ==
    /\ strategy = "FAILOVER"
    /\ last_key = Some(1)
    /\ keys[1].requests_made > 0
    /\ IsOnCooldown(keys[0], now)

\* C7 (as claimed): report_rate_limit(k) puts k on cooldown; k leaves cooldown only
\* when the clock reaches cooldown_until or by reset_key(k) / reset_all; k enters
\* cooldown only by report_rate_limit(k); no other call changes cooldown_until of k.
C7_CooldownChanges ==
    [][\A k \in Pool :
        LET reported == \E info \in LimitSnapshots : ReportRateLimit(k, info)
            reset == ResetKey(k) \/ ResetAll
        IN  /\ reported => IsOnCooldown(keys'[k], now')
            /\ (IsOnCooldown(keys[k], now) /\ ~IsOnCooldown(keys'[k], now'))
                   => (reset \/ now' >= Val(keys[k].cooldown_until))
            /\ (~IsOnCooldown(keys[k], now) /\ IsOnCooldown(keys'[k], now'))
                   => reported
            /\ keys'[k].cooldown_until # keys[k].cooldown_until
                   => (reported \/ reset)]_vars

\* C8: every item admitted by put has its future resolved exactly once (result, error,
\* timeout or cancellation): never twice, and never left pending, under every
\* interleaving of put, get, complete, fail, clear and timer expiry.
C8_ResolvedOnce ==
    /\ [](\A id \in 1..request_counter :
             /\ nres[id] <= 1
             /\ (nres[id] = 1) <=> (fut[id] \in {"result", "error", "timeout", "cancelled"}))
    /\ \A id \in 1..MaxPuts :
          (request_counter >= id) ~> (request_counter >= id /\ fut[id] # "pending")

\* C8 witness: a consumer got both items; it resolved one with a result, and the timer
\* of the other fired while the consumer held it, so that its put() raised
\* QueueTimeoutError with nothing left to remove: each future is resolved once.
C8_Witness ==
    /\ held = {1, 2}
    /\ queue = <<>>
    /\ \E id \in held, other \in held :
          /\ fut[id] = "timeout" /\ put_pc[id] = "raised_timeout" /\ nres[id] = 1
          /\ fut[other] = "result" /\ nres[other] = 1

\* C9 (as claimed): among queued items of equal priority get() returns the one enqueued
\* first (request ids are the arrival sequence), also when arrival stamps are equal.
C9_FifoWithinPriority ==
    [][Get => \A i \in 2..Len(queue) :
                 queue[i].priority = queue[1].priority => queue[1].id < queue[i].id]_vars

C4_NotSurfaced ==
    (req.pc = "done" /\ req.timeouts = 0 /\ req.limits >= 1) =>
        /\ req.outcome = "RateLimitError" => req.limits > engine.max_retries
        /\ req.outcome = "success" => req.retries = req.limits

\* C11 (as claimed): complete(id) and fail(id) resolve the future of every item that
\* was enqueued and is not yet finished, both while it is queued and after a consumer
\* has dequeued it: a future for which one of them was called while it was pending
\* holds the result or the error.
C11_CompleteSignals ==
    \A id \in signalled : fut[id] \in {"result", "error"}

\* C12: the queue size never exceeds max_size; a put on a full queue raises
\* QueueFullError at once and adds no item, and a put that is admitted found the queue
\* below max_size.
C12_SizeBounded ==
    /\ [](Len(queue) <= max_size)
    /\ [][/\ PutFull => (Len(queue) = max_size /\ queue' = queue
                          /\ request_counter' = request_counter
                          /\ last_put' = "QueueFullError")
          /\ last_put' = "QueueFullError" /\ last_put # "QueueFullError" => PutFull
          /\ request_counter' # request_counter => Len(queue) < max_size]_vars

\* C12 witness: the queue is full, a further put has raised QueueFullError, and both
\* admitted items are still waiting in the queue.
C12_Witness ==
    /\ max_size = 2
    /\ Len(queue) = max_size
    /\ last_put = "QueueFullError"
    /\ request_counter = 2
    /\ \A id \in 1..2 : fut[id] = "pending"

RecordStep == Len(entries') = Len(entries) + 1

\* the number of on_alert invocations for window w since the last reset_alerts
AlertCount(log, w) == Cardinality({i \in 1..Len(log) : log[i].window = w})

\* CostTracker.get_total_cost(): sum(entry.cost for entry in self.entries); no
\* timestamp is before 0
TotalCost(es) == CostSinceFrom(0, es, 0)

C15_RefusedBeforeCall ==
    [][(/\ wrapped'.calls = wrapped.calls + 1
        /\ \E w \in Windows : Enabled(w) /\ WindowSum(entries, w, now) >= Val(budgets[w]))
          => wrapped'.invoked = wrapped.invoked]_vars

\* C16 (as claimed): for each window on_alert is invoked at most once between two
\* reset_alerts calls; and a record that finds the window's alert not yet given in
\* this epoch and leaves its sum at or above alert_threshold * cap gives it.
C16_AlertOncePerEpoch ==
    /\ [](\A w \in Windows : AlertCount(alert_log, w) <= 1)
    /\ [][\A w \in Windows :
             (/\ RecordStep
              /\ Enabled(w)
              /\ AlertCount(alert_log, w) = 0
              /\ AlertDue(WindowSum(entries', w, now), Val(budgets[w])))
                 => AlertCount(alert_log', w) = 1]_vars

\* C17 (as claimed): the first record of an alert epoch after which a window sum is at
\* least alert_threshold * cap invokes on_alert(window, sum, cap) exactly once, whatever
\* the size of the sum, also when it is at or above the cap.
C17_FirstCrossingAlerts ==
    [][\A w \in Windows :
          (/\ RecordStep
           /\ Enabled(w)
           /\ ~alerted[w]
           /\ AlertDue(WindowSum(entries', w, now), Val(budgets[w])))
              => /\ Len(alert_log') > Len(alert_log)
                 /\ \E i \in (Len(alert_log) + 1)..Len(alert_log') :
                       alert_log'[i] = [window |-> w,
                                        current |-> WindowSum(entries', w, now),
                                        cap |-> Val(budgets[w])]
                 /\ AlertCount(alert_log', w) = 1]_vars

\* the authorization headers among a set of headers
AuthHeaders(hs) == {h \in hs : IsAuthorization(h[1])}

\* C18 (as claimed): on every transport attempt of a request, the first one and every
\* retry, the transport receives the caller's authorization header unchanged when the
\* caller supplied one in any letter case, and otherwise Authorization: Bearer <the key
\* selected for that attempt>.
C18_AuthHeaderPerAttempt ==
    req.pc = "transport" =>
        IF AuthHeaders(req.caller) # {}
        THEN AuthHeaders(req.sent) = AuthHeaders(req.caller)
        ELSE AuthHeaders(req.sent) = {<<"Authorization", Val(req.key)>>}

\* C19: when a transport call fails with an error that is not a timeout, request()
\* returns an unsuccessful outcome in that step: no further transport call is made,
\* the clock does not move (no sleep), no key state changes (no cooldown), and the
\* call stays finished afterwards.
C19_ErrorReturnsAtOnce ==
    [][/\ TransportError =>
            /\ req'.pc = "done"
            /\ req'.outcome = "failure"
            /\ req'.error = "request_error"
            /\ req'.calls = req.calls
            /\ req'.retries = req.retries
            /\ now' = now
            /\ keys' = keys
       /\ req.error = "request_error" =>
            /\ req' = req
            /\ keys' = keys]_vars

\* C19 witness: the second transport call of a request, made after a remote-limit
\* response, failed with a non-timeout error; the call ended unsuccessful after these
\* two calls and the key of the failed call is not on cooldown.
C19_Witness ==
    /\ req.pc = "done"
    /\ req.error = "request_error"
    /\ req.outcome = "failure"
    /\ req.calls = 2
    /\ req.limits = 1
    /\ ~IsOnCooldown(keys[Val(req.key)], now)

C21_ExhaustedTriesBoth ==
    (req.pc = "done" /\ Cardinality(Pool) = 2) =>
        /\ req.outcome = "RateLimitError"
        /\ Cardinality(req.keys_tried) >= 2

\* C22 (as claimed): with a pool {k1, k2}, when the transport call made with k1 answers
\* with a remote limit carrying Retry-After and the next transport call answers 200,
\* that next call is made with k2, the outcome is success with retries = 1, and k1 is
\* on cooldown when the outcome is returned.
C22_RotateOnLimit ==
    (/\ req.pc = "done"
     /\ Cardinality(Pool) = 2
     /\ Len(req.log) = 2
     /\ req.log[1].key = 0
     /\ req.log[1].result = "limit"
     /\ req.log[1].retry_after # None
     /\ req.log[2].result = "ok") =>
        /\ req.log[2].key = 1
        /\ req.outcome = "success"
        /\ req.retries = 1
        /\ IsOnCooldown(keys[0], now)

\* the value min(max_delay, X) scaled by the jitter factor f / 2
Scaled(x, f) == (Min(MaxDelay, x) * f) \div 2

\* C23 (as claimed): _calculate_delay(retries, snapshot) is min(max_delay, X) times the
\* jitter factor (1 with jitter off, between 0.5 and 1.5 with jitter on), where X is
\* snapshot.retry_after whenever it is known, the value 0 included, otherwise
\* max(0, reset_time - now) when reset_time is known, otherwise base_delay * 2^retries.
C23_DelayPrecedence ==
    calc.pc = "returned" =>
        LET info == calc.rate_limit_info
        IN  IF info # None /\ Val(info).retry_after # None
            THEN calc.delay = Scaled(Val(Val(info).retry_after), calc.f)
            ELSE IF info # None /\ Val(info).reset_time # None
            THEN calc.delay = Scaled(Max(0, Val(Val(info).reset_time) - calc.t), calc.f)
            ELSE calc.delay = Scaled(BaseDelay * Pow2(calc.retry_count), calc.f)

\* C24 (as claimed): after report_rate_limit(k, snapshot), cooldown_until = now + D
\* where D is snapshot.retry_after when it is known, otherwise max(reset_time - now,
\* default cooldown) when reset_time is known, otherwise the default cooldown; and D is
\* never negative, whatever the snapshot holds.
C24_CooldownLength ==
    [][\A k \in Pool, info \in LimitSnapshots :
          LET D == IF info # None /\ Val(info).retry_after # None
                   THEN Val(Val(info).retry_after)
                   ELSE IF info # None /\ Val(info).reset_time # None
                   THEN Max(Val(Val(info).reset_time) - now, CooldownSeconds)
                   ELSE CooldownSeconds
          IN  ReportRateLimit(k, info) =>
                 /\ keys'[k].cooldown_until = Some(now + D)
                 /\ Val(keys'[k].cooldown_until) >= now]_vars

\* C25: with ROUND_ROBIN, get_key returns the first key not on cooldown at or cyclically
\* after the cursor and sets the cursor to one past the chosen index modulo N; keys on
\* cooldown are skipped, and with no key on cooldown the key at the cursor is returned
\* and the cursor moves on by one, so that N consecutive calls return every key once in
\* declaration order.  Nothing but get_key moves the cursor.
C25_RoundRobin ==
    [][LET n == Cardinality(Pool)
       IN  /\ (strategy = "ROUND_ROBIN" /\ GetKey) =>
                 LET i == Val(last_key')
                     off == (i + n - current_index) % n
                 IN  /\ i \in Pool
                     /\ ~IsOnCooldown(keys[i], now)
                     /\ \A j \in 0..(off - 1) :
                           IsOnCooldown(keys[(current_index + j) % n], now)
                     /\ current_index' = (i + 1) % n
                     /\ (\A k \in Pool : ~IsOnCooldown(keys[k], now)) => i = current_index
           /\ current_index' # current_index => GetKey]_vars

\* C25 witness: in a pool of two with k1 on cooldown, round robin has returned k2 twice
\* in a row and the cursor has wrapped to k1.
C25_Witness ==
    /\ strategy = "ROUND_ROBIN"
    /\ Cardinality(Pool) = 2
    /\ IsOnCooldown(keys[0], now)
    /\ keys[0].requests_made = 0
    /\ keys[1].requests_made = 2
    /\ last_key = Some(1)
    /\ current_index = 0

\* C26 (as claimed): clear() returns the number of items queued at that moment, leaves
\* the queue empty and cancels every outstanding completion: every put that was still
\* waiting on its future ends with cancellation.
C26_ClearCancelsAll ==
    [][Clear =>
          /\ last_clear' = Some(Len(queue))
          /\ queue' = <<>>
          /\ \A id \in 1..request_counter :
                (put_pc[id] = "waiting" /\ fut[id] = "pending") => fut'[id] = "cancelled"]_vars

\* C28 (as claimed): during one rate-limited call on_limit_hit(provider, model) is
\* invoked at most once, on the first sleep of the call, also when the call waits for
\* both the request bucket and the token bucket: the count of invocations is 1 from the
\* first sleep to the end of the call.
C28_LimitHitOnce ==
    \A t \in Threads :
        /\ th[t].hits <= 1
        /\ th[t].pc \in {"sleep_request", "sleep_tokens"} => th[t].hits = 1

\* C27 (as claimed): on a fresh limiter with rpm=2, tpm=100, back-to-back rate-limited
\* calls with estimated_tokens=10 are admitted at about 0 s, 30 s and 60 s: one call per
\* half minute, the first at 0 s, without a gap.  (A half minute is TicksPerMin / 2
\* ticks; the calls counted are those of a caller none of whose calls raised or used
\* another estimate.)
C27_ShapingTimes ==
    (/\ metrics.failed_requests = 0
     /\ metrics.total_tokens = 10 * metrics.total_requests
     /\ th["t1"].est \in {0, 10}) =>
        \A c \in Clock :
            /\ AdmittedIn(c, Min(MaxClock, c + (TicksPerMin \div 2) - 1)) <= 1
            /\ admitted[c] > 0 => \A d \in 0..(c - 1) :
                                     d % (TicksPerMin \div 2) = 0 => admitted[d] > 0

\* C29 (as claimed): after any sequence of record calls, returning or raising
\* BudgetExceededError, get_total_cost() equals the sum of the values of get_costs();
\* get_metrics() reports these two as costs.total and costs.by_model.
C29_TotalIsSumOfBreakdown == TotalCost(entries) = SumOfCosts(entries)

\* C30 (as claimed): with the OpenAI dialect, when the transport returns status 503 and
\* a body that mentions "rate", request() treats the response as a remote limit: the
\* key is reported to the pool and goes on cooldown, and the call backs off (sleeps) to
\* retry, instead of returning the response as a success.
C30_Status503IsLimit ==
    [][\A info \in ResponseInfos(now), f \in JitterHalves :
          TransportReturns(503, Some("Rate limit exceeded"), info, f) =>
             /\ req'.pc = "sleeping"
             /\ req'.limits = req.limits + 1
             /\ req'.outcome # "success"
             /\ keys'[Val(req.key)].cooldown_until # None]_vars

\* C31 (as claimed): no item whose completion has been signalled remains in the queue:
\* complete(id, value) or fail(id, error) on a queued item whose future is pending
\* removes the item, and size decreases by one.
C31_SignalledItemGone ==
    [][\A id \in 1..request_counter :
          ((Complete(id) \/ Fail(id)) /\ InQueue(id) /\ fut[id] = "pending") =>
             /\ \A i \in 1..Len(queue') : queue'[i].id # id
             /\ Len(queue') = Len(queue) - 1]_vars

\* C32 (as claimed): wait_for_item(timeout) returns None only when its timeout has
\* elapsed, and a waiter woken by a put returns an item, also when other consumers call
\* get concurrently or a queued item is removed by its own timeout.
C32_WaitReturnsItem ==
    waiter.pc = "returned" =>
        /\ (waiter.result = None => waiter.timed_out)
        /\ (waiter.notified => waiter.result # None)

\* C33 (as claimed): for every remote-limit response the engine reports the key to the
\* pool, so that the key is already on cooldown, then calls on_rate_limit(key, snapshot)
\* once, then on_retry(attempt, delay) once with attempt = retries so far + 1, then
\* sleeps delay; after the sleep retries is incremented and the next key is selected.
C33_LimitOrder ==
    [][/\ (req.pc = "transport" /\ req'.pc = "sleeping") =>
            LET e == req'.events
                k == Val(req.key)
            IN  /\ Len(e) = 4
                /\ e[1].ev = "report_rate_limit" /\ e[1].args = <<k>>
                /\ e[2].ev = "on_rate_limit" /\ e[2].args = <<k>>
                /\ e[2].cooling
                /\ IsOnCooldown(keys'[k], now)
                /\ e[3].ev = "on_retry" /\ e[3].args[1] = req.retries + 1
                /\ e[4].ev = "sleep" /\ e[4].args[1] = e[3].args[2]
                /\ e[4].args[1] >= 0
                /\ req'.wake = now + e[4].args[1]
                /\ req'.retries = req.retries
       /\ (req.pc = "sleeping" /\ req'.pc # "sleeping") =>
            /\ req'.retries = req.retries + 1
            /\ now' >= req.wake
            /\ req'.pc = "transport" => last_key' = req'.key]_vars

\* C34 (as claimed): every transport attempt of one request call is sent with the
\* headers the caller passed to request: a retry after a remote limit or a timeout
\* carries the same caller-supplied headers as the first attempt.
C34_CallerHeadersKept ==
    req.pc = "transport" => req.caller \subseteq req.sent

\* C35 (as claimed): for every key, requests_made equals the number of transport calls
\* issued with that key since construction, over request calls and reads of
\* current_key; a get_key that returns None changes no counter and no cursor.
C35_RequestsMadeCountsCalls ==
    [][/\ \A k \in Pool : keys'[k].requests_made = IssuedWith(req', k)
       /\ GetKeyNone => UNCHANGED <<keys, current_index>>]_vars

\* C36: a response whose status the dialect does not classify as a remote limit, also
\* an error status such as 401 or 500, ends the request in that step with success=true:
\* the pool gets report_success for the key of the attempt (its snapshot is stored), no
\* further transport call is made, the clock does not move, and no key is put on
\* cooldown.
C36_UnclassifiedIsSuccess ==
    [][\A status_code \in Statuses, response_body \in Bodies :
         \A info \in ResponseInfos(now), f \in JitterHalves :
            (/\ ~IsRateLimitError(status_code, response_body)
             /\ TransportReturns(status_code, response_body, info, f)) =>
               /\ req'.pc = "done"
               /\ req'.outcome = "success"
               /\ req'.status = status_code
               /\ req'.calls = req.calls /\ req'.retries = req.retries
               /\ now' = now
               /\ engine' = engine
               /\ keys'[Val(req.key)].rate_limit_info = Some(info)
               /\ \A k \in Pool : keys'[k].cooldown_until = keys[k].cooldown_until]_vars

\* request() has returned success=True for a response with status 401 or 500
C36_Witness ==
    /\ req.pc = "done"
    /\ req.outcome = "success"
    /\ req.status \in {401, 500}
    /\ req.calls = 1
    /\ \A k \in Pool : ~IsOnCooldown(keys[k], now)

C38_OversizeTerminates ==
    /\ [][\A t \in Threads :
            th[t].est > TPM =>
               /\ WaitForTokenCapacity(t) => th'[t].pc = "sleep_tokens" /\ th'[t].wake > now
               /\ ConsumeTokens(t) =>
                     /\ ~ConsumeOk(token_bucket, now, th[t].est)
                     /\ token_bucket'.tokens >= token_bucket.tokens
                     /\ th'[t].pc = "idle"
               /\ token_bucket'.tokens < token_bucket.tokens =>
                     \E u \in Threads \ {t} : ConsumeTokens(u)]_vars
    /\ \A t \in Threads :
          (th[t].pc # "idle" /\ th[t].est > TPM) ~> (th[t].pc = "idle")

\* a call with estimated_tokens above the capacity has slept for tokens, has run the
\* wrapped function and is about to return, while the bucket is full again
C38_Witness ==
    \E t \in Threads :
        /\ th[t].pc = "consume_tokens"
        /\ th[t].est > TPM
        /\ th[t].hits >= 1
        /\ th[t].invoked
        /\ token_bucket.tokens = token_bucket.capacity

C40_ZeroCapIsNoCap ==
    \A w \in Windows :
        budgets[w] = Some(0) =>
            /\ last_record.raised # w
            /\ AlertCount(alert_log, w) = 0
            /\ ~alerted[w]

\* the daily cap is 0 and the only one, the ledger holds costs inside the day, and the
\* latest record returned
C40_Witness ==
    /\ budgets = [w \in Windows |-> IF w = "daily" THEN Some(0) ELSE None]
    /\ Len(entries) >= 2
    /\ WindowSum(entries, "daily", now) >= 6
    /\ last_record.cost > 0
    /\ last_record.raised = "none"
====
